---- MODULE Spec2Model ----
(***************************************************************************)
(* Session workflow graphs of the college management application.          *)
(*                                                                         *)
(* Three LangGraph state graphs are modelled, each over the shared MongoDB  *)
(* collections of database.py and the operations of models.py:             *)
(*   - main.py + langgraph_nodes.py  (prog = "main")                        *)
(*   - final_app.py                  (prog = "final_app")                   *)
(*   - app_ui.py                     (prog = "app_ui")                      *)
(* A graph state is a Python dict: a function from the keys present to     *)
(* their values.  uuid4 values are modelled as fresh tagged counters.       *)
(***************************************************************************)
EXTENDS Integers, Sequences, FiniteSets, TLC

\* ---------------------------------------------------------------- bounds
\* The ceiling on the supersteps of one traversal (recursion_limit of the
\* config given to app.stream: 100 in main.py, 150 in testing.py).  The cycles
\* of both graphs have length 1 (login) or 2 (menu, action), so a traversal
\* that runs into a ceiling of 100 runs into this one the same way.
recursion_limit == 7
\* Inserts into the users collection stop at MaxUsers documents.
MaxUsers == 5
\* Inserts into the assignments collection stop at MaxAssignments documents.
MaxAssignments == 1
\* Inserts into the submissions collection stop at MaxSubmissions documents.
MaxSubmissions == 2

\* ------------------------------------------------------- python values
None == [None |-> TRUE]
EmptyDict == <<>>

\* d.get(k, default)
Get(d, k, default) == IF k \in DOMAIN d THEN d[k] ELSE default

\* {**d, **upd}: the keys of upd replace those of d
Merge(d, upd) == upd @@ d

\* str.lower() on the action names that are submitted
Lower(s) ==
    CASE s = "LOGOUT" -> "logout"
      [] s = "Add_College" -> "add_college"
      [] s = "END_OF_TURN" -> "end_of_turn"
      [] OTHER -> s

\* str.strip() on the action names that are submitted
Strip(s) ==
    CASE s = " logout " -> "logout"
      [] s = " " -> ""
      [] OTHER -> s

\* str(uuid.uuid4()): a value never produced before
Uuid(n) == [uuid |-> n]

\* str(uuid.uuid4())[:8], the temporary password
TempPassword(n) == [uuid8 |-> n]

\* bcrypt.hash
BcryptHash(plain_text) == [bcrypt |-> plain_text]

\* bcrypt.verify
BcryptVerify(plain_text, password_hash) == password_hash = BcryptHash(plain_text)

\* ------------------------------------------------------------ database
\* The number of uuid4 calls made so far by the inserts of db d.
Issued(d) ==
    Len(d.users) + Len(d.colleges) + Len(d.teachers) + Len(d.students)
        + Len(d.assignments)

\* The documents of a collection; a query is the set of those it matches
Docs(coll) == {coll[i] : i \in 1..Len(coll)}

\* collection.find_one(query): the first document, in insertion order
FindOne(coll, matching) ==
    IF \E i \in 1..Len(coll) : coll[i] \in matching
    THEN coll[CHOOSE i \in 1..Len(coll) :
                 /\ coll[i] \in matching
                 /\ \A j \in 1..(i - 1) : coll[j] \notin matching]
    ELSE None

\* list(collection.find(query))
Find(coll, matching) == SelectSeq(coll, LAMBDA doc : doc \in matching)

\* collection.update_one(query, {"$set": fields}): the collection afterwards
UpdateOne(coll, matching, fields) ==
    IF \E i \in 1..Len(coll) : coll[i] \in matching
    THEN LET i == CHOOSE k \in 1..Len(coll) :
                      /\ coll[k] \in matching
                      /\ \A j \in 1..(k - 1) : coll[j] \notin matching
         IN  [coll EXCEPT ![i] = Merge(coll[i], fields)]
    ELSE coll

\* result.modified_count of that update_one: 1 when the document changed
ModifiedCount(coll, matching, fields) ==
    IF UpdateOne(coll, matching, fields) # coll THEN 1 ELSE 0

\* User._is_valid_phone: ^\d{10,15}$ ; a phone number is given by its
\* number of digits, 0 standing for a value that is not all digits
User_is_valid_phone(phone_no) == phone_no >= 10 /\ phone_no <= 15

\* User._is_valid_email, on the addresses that are submitted
User_is_valid_email(email) == email # "not-an-email"

\* User._is_valid_age, for an age that is a number
User_is_valid_age(age) == 0 < age /\ age < 120

\* User.__init__: TRUE when no ValueError is raised
User_init_ok(age, phone_no, email) ==
    /\ User_is_valid_phone(phone_no)
    /\ User_is_valid_email(email)
    /\ User_is_valid_age(age)

\* The (None, None) return of the add_* methods' except branch
AddFailed(d) == [db |-> d, doc |-> None, password |-> None]

\* Admin.add_college
Admin_add_college(d, college_data) ==
    IF ~({"principal_name", "phone_no", "email"} \subseteq DOMAIN college_data)
    THEN AddFailed(d)
    \* college_data.get('principal_age') is None: _is_valid_age(None) is False
    ELSE IF "principal_age" \notin DOMAIN college_data
    THEN AddFailed(d)
    ELSE IF ~User_init_ok(college_data["principal_age"],
                          college_data["phone_no"], college_data["email"])
    THEN AddFailed(d)
    ELSE LET principal_password == TempPassword(Issued(d) + 1)
             user_doc == [_id |-> Uuid(Issued(d) + 1),
                          name |-> college_data["principal_name"],
                          email |-> college_data["email"],
                          _password_hash |-> BcryptHash(principal_password),
                          role |-> "college"]
             d1 == [d EXCEPT !.users = Append(@, user_doc)]
         IN  IF "name" \notin DOMAIN college_data
             THEN AddFailed(d1)
             ELSE LET college_doc == [_id |-> Uuid(Issued(d1) + 1),
                                      name |-> college_data["name"],
                                      email |-> college_data["email"],
                                      principal_user_id |-> user_doc._id,
                                      active |-> TRUE]
                  IN  [db |-> [d1 EXCEPT !.colleges = Append(@, college_doc)],
                       doc |-> college_doc,
                       password |-> principal_password]

\* Admin.remove_college: the database afterwards
Admin_remove_college_db(d, college_id) ==
    [d EXCEPT !.colleges =
        UpdateOne(@, {c \in Docs(@) : c._id = college_id}, [active |-> FALSE])]

\* Admin.remove_college: its return value
Admin_remove_college(d, college_id) ==
    ModifiedCount(d.colleges, {c \in Docs(d.colleges) : c._id = college_id}, [active |-> FALSE]) > 0

\* Admin.list_colleges
Admin_list_colleges(d, include_inactive) ==
    IF include_inactive THEN d.colleges
    ELSE Find(d.colleges, {c \in Docs(d.colleges) : c.active = TRUE})

\* College.add_teacher
College_add_teacher(d, teacher_data, college_id) ==
    IF ~({"name", "age", "address", "phone_no", "email"} \subseteq DOMAIN teacher_data)
    THEN AddFailed(d)
    ELSE IF ~User_init_ok(teacher_data["age"], teacher_data["phone_no"],
                          teacher_data["email"])
    THEN AddFailed(d)
    ELSE LET teacher_password == TempPassword(Issued(d) + 1)
             user_doc == [_id |-> Uuid(Issued(d) + 1),
                          name |-> teacher_data["name"],
                          email |-> teacher_data["email"],
                          _password_hash |-> BcryptHash(teacher_password),
                          role |-> "teacher"]
             d1 == [d EXCEPT !.users = Append(@, user_doc)]
         IN  IF "assigned_class" \notin DOMAIN teacher_data
             THEN AddFailed(d1)
             ELSE LET teacher_doc == [_id |-> Uuid(Issued(d1) + 1),
                                      name |-> teacher_data["name"],
                                      email |-> teacher_data["email"],
                                      assigned_class |-> teacher_data["assigned_class"],
                                      college_id |-> college_id,
                                      teacher_user_id |-> user_doc._id,
                                      active |-> TRUE]
                  IN  [db |-> [d1 EXCEPT !.teachers = Append(@, teacher_doc)],
                       doc |-> teacher_doc,
                       password |-> teacher_password]

\* College.remove_teacher: the database afterwards
College_remove_teacher_db(d, teacher_id) ==
    [d EXCEPT !.teachers =
        UpdateOne(@, {t \in Docs(@) : t._id = teacher_id}, [active |-> FALSE])]

\* College.remove_teacher: its return value
College_remove_teacher(d, teacher_id) ==
    ModifiedCount(d.teachers, {t \in Docs(d.teachers) : t._id = teacher_id}, [active |-> FALSE]) > 0

\* College.list_teachers without the college_id of the query
College_list_teachers_of_all_colleges(d, college_id, include_inactive) ==
    IF include_inactive
    THEN d.teachers
    ELSE Find(d.teachers, {t \in Docs(d.teachers) : t.active = TRUE})

\* College.list_teachers
College_list_teachers(d, college_id, include_inactive) ==
    IF include_inactive
    THEN Find(d.teachers, {t \in Docs(d.teachers) : t.college_id = college_id})
    ELSE Find(d.teachers, {t \in Docs(d.teachers) : t.college_id = college_id /\ t.active = TRUE})

\* Teacher.add_student
Teacher_add_student(d, student_data, teacher_id, college_id, assigned_class) ==
    IF ~({"name", "age", "address", "phone_no", "email"} \subseteq DOMAIN student_data)
    THEN AddFailed(d)
    ELSE IF ~User_init_ok(student_data["age"], student_data["phone_no"],
                          student_data["email"])
    THEN AddFailed(d)
    ELSE LET student_password == TempPassword(Issued(d) + 1)
             user_doc == [_id |-> Uuid(Issued(d) + 1),
                          name |-> student_data["name"],
                          email |-> student_data["email"],
                          _password_hash |-> BcryptHash(student_password),
                          role |-> "student"]
             d1 == [d EXCEPT !.users = Append(@, user_doc)]
             student_doc == [_id |-> Uuid(Issued(d1) + 1),
                             name |-> student_data["name"],
                             email |-> student_data["email"],
                             assigned_class |-> assigned_class,
                             college_id |-> college_id,
                             teacher_id |-> teacher_id,
                             student_user_id |-> user_doc._id,
                             active |-> TRUE]
         IN  [db |-> [d1 EXCEPT !.students = Append(@, student_doc)],
              doc |-> student_doc,
              password |-> student_password]

\* Teacher.generate_assignment; generated is whether loading the PDF, the
\* language-model call and the parsing of its answer all succeeded
Teacher_generate_assignment(d, topic, teacher_id, generated) ==
    IF ~generated
    THEN [db |-> d, assignment_id |-> None]
    ELSE LET assignment_id == Uuid(Issued(d) + 1)
         IN  [db |-> [d EXCEPT !.assignments = Append(@,
                         [_id |-> assignment_id, teacher_id |-> teacher_id,
                          topic |-> topic, is_sent |-> FALSE,
                          sent_to_classes |-> {}])],
              assignment_id |-> assignment_id]

\* Teacher.send_assignment: the database afterwards
Teacher_send_assignment_db(d, assignment_id, class_ids) ==
    [d EXCEPT !.assignments =
        UpdateOne(@, {a \in Docs(@) : a._id = assignment_id},
                  [sent_to_classes |-> class_ids, is_sent |-> TRUE])]

\* Teacher.send_assignment: its return value
Teacher_send_assignment(d, assignment_id, class_ids) ==
    ModifiedCount(d.assignments, {a \in Docs(d.assignments) : a._id = assignment_id},
                  [sent_to_classes |-> class_ids, is_sent |-> TRUE]) > 0

\* Student.get_assignments
\* Student.get_assignments with the submissions of every student taken for
\* the student's own
Student_get_assignments_of_all_students(d, student_id, assigned_class, status) ==
    LET submitted_ids ==
            {d.submissions[i].assignment_id : i \in 1..Len(d.submissions)}
    IN  IF status = "pending"
        THEN Find(d.assignments, {a \in Docs(d.assignments) :
                                     /\ assigned_class \in a.sent_to_classes
                                     /\ a._id \notin submitted_ids})
        ELSE IF status = "submitted"
        THEN Find(d.assignments, {a \in Docs(d.assignments) : a._id \in submitted_ids})
        ELSE Find(d.assignments, {a \in Docs(d.assignments) : assigned_class \in a.sent_to_classes})

Student_get_assignments(d, student_id, assigned_class, status) ==
    LET submitted_ids ==
            {d.submissions[i].assignment_id : i \in
                {k \in 1..Len(d.submissions) : d.submissions[k].student_id = student_id}}
    IN  IF status = "pending"
        THEN Find(d.assignments, {a \in Docs(d.assignments) :
                                     /\ assigned_class \in a.sent_to_classes
                                     /\ a._id \notin submitted_ids})
        ELSE IF status = "submitted"
        THEN Find(d.assignments, {a \in Docs(d.assignments) : a._id \in submitted_ids})
        ELSE Find(d.assignments, {a \in Docs(d.assignments) : assigned_class \in a.sent_to_classes})

\* Student.submit_assignment; graded is whether llm.text_generation returned
\* (it raises otherwise)
Student_submit_assignment(d, assignment_id, student_id, graded) ==
    IF FindOne(d.assignments, {a \in Docs(d.assignments) : a._id = assignment_id}) = None
    THEN [db |-> d, exc |-> "none", result |-> "Assignment not found."]
    ELSE IF ~graded
    THEN [db |-> d, exc |-> "Exception", result |-> ""]
    ELSE [db |-> [d EXCEPT !.submissions = Append(@,
                    [assignment_id |-> assignment_id, student_id |-> student_id])],
          exc |-> "none", result |-> "grading_result"]

\* ------------------------------------------------------- seeded database
\* create_admin.py
ADMIN_EMAIL == "admin@example.com"
ADMIN_PASSWORD == [str |-> "abcd1234"]

\* create_admin.py: the first admin user
create_admin(d) ==
    IF FindOne(d.users, {u \in Docs(d.users) : u.email = ADMIN_EMAIL}) # None
    THEN d
    ELSE [d EXCEPT !.users = Append(@,
            [_id |-> Uuid(Issued(d) + 1), name |-> "Administrator",
             email |-> ADMIN_EMAIL,
             _password_hash |-> BcryptHash(ADMIN_PASSWORD), role |-> "admin"])]

EmptyDb ==
    [users |-> <<>>, colleges |-> <<>>, teachers |-> <<>>, students |-> <<>>,
     assignments |-> <<>>, submissions |-> <<>>]

\* The payloads of testing.py's run_full_test
COLLEGE_DATA ==
    [name |-> "LangGraph University", principal_name |-> "Dr. Sam Altman",
     principal_age |-> 38, phone_no |-> 10, email |-> "principal.sam@lgu.edu"]
TEACHER_DATA ==
    [name |-> "Prof. Geoffrey Hinton", age |-> 76, address |-> "123 Neural Net Avenue",
     phone_no |-> 10, email |-> "prof.hinton@lgu.edu",
     assigned_class |-> "Deep Learning 101"]
STUDENT_DATA ==
    [name |-> "Alex Student", age |-> 20, address |-> "456 Backprop Boulevard",
     phone_no |-> 10, email |-> "alex.student@lgu.edu"]

\* The database after create_admin.py and one Admin.add_college,
\* College.add_teacher and Teacher.add_student with testing.py's payloads.
SeedCollege == Admin_add_college(create_admin(EmptyDb), COLLEGE_DATA)
SeedTeacher == College_add_teacher(SeedCollege.db, TEACHER_DATA, SeedCollege.doc._id)
SeedStudent ==
    Teacher_add_student(SeedTeacher.db, STUDENT_DATA, SeedTeacher.doc._id,
                        SeedCollege.doc._id, SeedTeacher.doc.assigned_class)
SeedDb == SeedStudent.db

\* ------------------------------------------------------------ variables
VARIABLES
    prog,        \* the graph that runs: "main", "final_app" or "app_ui"
    db,          \* the MongoDB collections of database.py
    state,       \* the graph state (AppState) of the traversal
    node,        \* the node to evaluate next
    status,      \* "idle", "running", "ended", or the exception that aborted
    steps,       \* supersteps taken by the traversal
    visits,      \* evaluations of each node in the traversal
    input,       \* the input of the traversal (app.stream's first argument)
    lastLogin,   \* the update of the last successful login_node evaluation
    prev         \* what the previous traversal under the config's thread_id
                 \* left as current_role, current_user_id and user_context

vars == <<prog, db, state, node, status, steps, visits, input, lastLogin, prev>>

END == "__end__"

\* --------------------------------------------- langgraph_nodes.py nodes
Msg(text) == [text |-> text]

\* login_node: the user_context of a user that verified, without the
\* teacher's assigned_class
login_context_without_class(d, role, user_id) ==
    LET college_doc ==
            FindOne(d.colleges, {c \in Docs(d.colleges) : c.principal_user_id = user_id})
        teacher_doc ==
            FindOne(d.teachers, {t \in Docs(d.teachers) : t.teacher_user_id = user_id})
        student_doc ==
            FindOne(d.students, {t \in Docs(d.students) : t.student_user_id = user_id})
    IN  CASE role = "college" /\ college_doc # None ->
                 [college_id |-> college_doc._id]
          [] role = "teacher" /\ teacher_doc # None ->
                 [college_id |-> teacher_doc.college_id,
                  teacher_db_id |-> teacher_doc._id]
          [] role = "student" /\ student_doc # None ->
                 [student_db_id |-> student_doc._id,
                  assigned_class |-> student_doc.assigned_class]
          [] OTHER -> EmptyDict

\* login_node: the user_context of a user that verified
login_context(d, role, user_id) ==
    LET college_doc ==
            FindOne(d.colleges, {c \in Docs(d.colleges) : c.principal_user_id = user_id})
        teacher_doc ==
            FindOne(d.teachers, {t \in Docs(d.teachers) : t.teacher_user_id = user_id})
        student_doc ==
            FindOne(d.students, {t \in Docs(d.students) : t.student_user_id = user_id})
    IN  CASE role = "college" /\ college_doc # None ->
                 [college_id |-> college_doc._id]
          [] role = "teacher" /\ teacher_doc # None ->
                 [college_id |-> teacher_doc.college_id,
                  teacher_db_id |-> teacher_doc._id,
                  assigned_class |-> teacher_doc.assigned_class]
          [] role = "student" /\ student_doc # None ->
                 [student_db_id |-> student_doc._id,
                  assigned_class |-> student_doc.assigned_class]
          [] OTHER -> EmptyDict

\* login_node leaving a session that is already authenticated as it is
login_node_keeps_session(d, s) ==
    IF Get(s, "current_role", "unauthenticated") # "unauthenticated"
    THEN [current_role |-> s["current_role"], message |-> Msg("Already logged in.")]
    ELSE IF \/ "user_data" \notin DOMAIN s
            \/ ~({"email", "password"} \subseteq DOMAIN s["user_data"])
    THEN [current_role |-> "unauthenticated",
          message |-> Msg("Login requires 'email' and 'password'.")]
    ELSE LET email == s["user_data"]["email"]
             password == s["user_data"]["password"]
             user == FindOne(d.users, {u \in Docs(d.users) : u.email = email})
         IN  IF user # None /\ BcryptVerify(password, user._password_hash)
             THEN [current_role |-> user.role, current_user_id |-> user._id,
                   user_context |-> login_context(d, user.role, user._id),
                   message |-> Msg("Login successful! Welcome.")]
             ELSE [current_role |-> "unauthenticated",
                   message |-> Msg("Invalid credentials.")]

\* login_node telling an unknown email from a wrong password
login_node_user_not_found(d, s) ==
    IF \/ "user_data" \notin DOMAIN s
       \/ ~({"email", "password"} \subseteq DOMAIN s["user_data"])
    THEN [current_role |-> "unauthenticated",
          message |-> Msg("Login requires 'email' and 'password'.")]
    ELSE LET email == s["user_data"]["email"]
             password == s["user_data"]["password"]
             user == FindOne(d.users, {u \in Docs(d.users) : u.email = email})
         IN  IF user = None
             THEN [current_role |-> "unauthenticated", message |-> Msg("User not found.")]
             ELSE IF BcryptVerify(password, user._password_hash)
             THEN [current_role |-> user.role, current_user_id |-> user._id,
                   user_context |-> login_context(d, user.role, user._id),
                   message |-> Msg("Login successful! Welcome.")]
             ELSE [current_role |-> "unauthenticated",
                   message |-> Msg("Invalid credentials.")]

\* login_node
login_node(d, s) ==
    IF \/ "user_data" \notin DOMAIN s
       \/ ~({"email", "password"} \subseteq DOMAIN s["user_data"])
    THEN [current_role |-> "unauthenticated",
          message |-> Msg("Login requires 'email' and 'password'.")]
    ELSE LET email == s["user_data"]["email"]
             password == s["user_data"]["password"]
             user == FindOne(d.users, {u \in Docs(d.users) : u.email = email})
         IN  IF user # None /\ BcryptVerify(password, user._password_hash)
             THEN LET role == user.role
                      user_id == user._id
                      context == login_context(d, role, user_id)
                  IN  [current_role |-> role, current_user_id |-> user_id,
                       user_context |-> context,
                       message |-> Msg("Login successful! Welcome.")]
             ELSE [current_role |-> "unauthenticated",
                   message |-> Msg("Invalid credentials.")]

\* logout_node forgetting to reset current_role
logout_node_keeps_role(s) ==
    [current_user_id |-> None, user_context |-> EmptyDict, user_data |-> EmptyDict,
     action |-> "", message |-> Msg("You have been logged out.")]

\* logout_node
logout_node(s) ==
    [current_role |-> "unauthenticated", current_user_id |-> None,
     user_context |-> EmptyDict, user_data |-> EmptyDict, action |-> "",
     message |-> Msg("You have been logged out.")]

\* admin_menu_node
admin_menu_node(s) ==
    [message |-> [text |-> "ADMIN MENU | Actions:",
                  actions |-> <<"add_college", "remove_college", "list_colleges", "logout">>]]

\* college_menu_node also resetting the context
college_menu_node_resets_context(s) ==
    [message |-> [text |-> "COLLEGE MENU | Actions:",
                  actions |-> <<"add_teacher", "remove_teacher", "list_teachers", "logout">>],
     user_context |-> EmptyDict]

\* college_menu_node
college_menu_node(s) ==
    [message |-> [text |-> "COLLEGE MENU | Actions:",
                  actions |-> <<"add_teacher", "remove_teacher", "list_teachers", "logout">>]]

\* teacher_menu_node
teacher_menu_node(s) ==
    [message |-> [text |-> "TEACHER MENU | Actions:",
                  actions |-> <<"add_student", "generate_assignment", "send_assignment", "logout">>]]

\* student_menu_node
student_menu_node(s) ==
    [message |-> [text |-> "STUDENT MENU | Actions:",
                  actions |-> <<"get_assignments", "submit_assignment", "summarize_pdf", "logout">>]]

\* What evaluating a node gives: the update it returns and the database
\* afterwards, or the exception it raised
Returned(update, d) == [exc |-> "none", update |-> update, db |-> d]
Raised(exc, d) == [exc |-> exc, update |-> EmptyDict, db |-> d]

\* add_college_node
add_college_node(d, s) ==
    IF "user_data" \notin DOMAIN s THEN Raised("KeyError", d)
    ELSE LET r == Admin_add_college(d, s["user_data"])
         IN  IF r.doc # None
             THEN Returned([message |-> [text |-> "College added. Principal's temporary password:",
                                         name |-> r.doc.name,
                                         password |-> r.password]], r.db)
             ELSE Returned([message |-> Msg("Failed to add college. Check data and try again.")],
                           r.db)

\* remove_college_node
remove_college_node(d, s) ==
    IF "user_data" \notin DOMAIN s \/ "college_id" \notin DOMAIN s["user_data"]
    THEN Raised("KeyError", d)
    ELSE IF Admin_remove_college(d, s["user_data"]["college_id"])
    THEN Returned([message |-> Msg("College removed successfully.")],
                  Admin_remove_college_db(d, s["user_data"]["college_id"]))
    ELSE Returned([message |-> Msg("Failed to remove college or college not found.")],
                  Admin_remove_college_db(d, s["user_data"]["college_id"]))

\* list_colleges_node
list_colleges_node(d, s) ==
    IF "user_data" \notin DOMAIN s THEN Raised("KeyError", d)
    ELSE Returned([message |-> [text |-> "json",
                                data |-> Admin_list_colleges(d,
                                    Get(s["user_data"], "include_inactive", FALSE))]], d)

\* add_teacher_node
add_teacher_node(d, s) ==
    IF \/ "user_data" \notin DOMAIN s
       \/ "user_context" \notin DOMAIN s
       \/ "college_id" \notin DOMAIN s["user_context"]
    THEN Raised("KeyError", d)
    ELSE LET r == College_add_teacher(d, s["user_data"], s["user_context"]["college_id"])
         IN  IF r.doc # None
             THEN Returned([message |-> [text |-> "Teacher added. Temporary password:",
                                         name |-> r.doc.name,
                                         password |-> r.password]], r.db)
             ELSE Returned([message |-> Msg("Failed to add teacher.")], r.db)

\* remove_teacher_node
remove_teacher_node(d, s) ==
    IF "user_data" \notin DOMAIN s \/ "teacher_id" \notin DOMAIN s["user_data"]
    THEN Raised("KeyError", d)
    ELSE IF College_remove_teacher(d, s["user_data"]["teacher_id"])
    THEN Returned([message |-> Msg("Teacher removed.")],
                  College_remove_teacher_db(d, s["user_data"]["teacher_id"]))
    ELSE Returned([message |-> Msg("Failed to remove teacher.")],
                  College_remove_teacher_db(d, s["user_data"]["teacher_id"]))

\* list_teachers_node
list_teachers_node(d, s) ==
    IF \/ "user_data" \notin DOMAIN s
       \/ "user_context" \notin DOMAIN s
       \/ "college_id" \notin DOMAIN s["user_context"]
    THEN Raised("KeyError", d)
    ELSE Returned([message |-> [text |-> "json",
                                data |-> College_list_teachers(d,
                                    s["user_context"]["college_id"],
                                    Get(s["user_data"], "include_inactive", FALSE))]], d)

\* add_student_node
add_student_node(d, s) ==
    IF \/ "user_data" \notin DOMAIN s
       \/ "user_context" \notin DOMAIN s
       \/ ~({"teacher_db_id", "college_id", "assigned_class"}
                \subseteq DOMAIN s["user_context"])
    THEN Raised("KeyError", d)
    ELSE LET context == s["user_context"]
             r == Teacher_add_student(d, s["user_data"], context["teacher_db_id"],
                                      context["college_id"], context["assigned_class"])
         IN  IF r.doc # None
             THEN Returned([message |-> [text |-> "Student added. Temporary password:",
                                         name |-> r.doc.name,
                                         password |-> r.password]], r.db)
             ELSE Returned([message |-> Msg("Failed to add student.")], r.db)

\* generate_assignment_node
generate_assignment_node(d, s, generated) ==
    IF \/ "user_data" \notin DOMAIN s
       \/ "user_context" \notin DOMAIN s
       \/ "teacher_db_id" \notin DOMAIN s["user_context"]
       \/ ~({"pdf_file_path", "topic", "num_mcq", "num_short", "num_long"}
                \subseteq DOMAIN s["user_data"])
    THEN Raised("KeyError", d)
    ELSE LET r == Teacher_generate_assignment(d, s["user_data"]["topic"],
                                              s["user_context"]["teacher_db_id"],
                                              generated)
         IN  IF r.assignment_id # None
             THEN Returned([message |-> [text |-> "Assignment generated! ID:",
                                         id |-> r.assignment_id]], r.db)
             ELSE Returned([message |-> Msg("Failed to generate assignment.")], r.db)

\* send_assignment_node
send_assignment_node(d, s) ==
    IF \/ "user_data" \notin DOMAIN s
       \/ ~({"assignment_id", "class_ids"} \subseteq DOMAIN s["user_data"])
    THEN Raised("KeyError", d)
    ELSE LET data == s["user_data"]
         IN  IF Teacher_send_assignment(d, data["assignment_id"], data["class_ids"])
             THEN Returned([message |-> Msg("Assignment sent!")],
                           Teacher_send_assignment_db(d, data["assignment_id"],
                                                      data["class_ids"]))
             ELSE Returned([message |-> Msg("Failed to send assignment.")],
                           Teacher_send_assignment_db(d, data["assignment_id"],
                                                      data["class_ids"]))

\* get_assignments_node
get_assignments_node(d, s) ==
    IF \/ "user_data" \notin DOMAIN s
       \/ "user_context" \notin DOMAIN s
       \/ ~({"student_db_id", "assigned_class"} \subseteq DOMAIN s["user_context"])
    THEN Raised("KeyError", d)
    ELSE LET context == s["user_context"]
         IN  Returned([message |-> [text |-> "json",
                                    data |-> Student_get_assignments(d,
                                        context["student_db_id"], context["assigned_class"],
                                        Get(s["user_data"], "status", "pending"))]], d)

\* submit_assignment_node
submit_assignment_node(d, s, graded) ==
    IF \/ "user_data" \notin DOMAIN s
       \/ "user_context" \notin DOMAIN s
       \/ "student_db_id" \notin DOMAIN s["user_context"]
       \/ ~({"assignment_id", "answers"} \subseteq DOMAIN s["user_data"])
    THEN Raised("KeyError", d)
    ELSE LET r == Student_submit_assignment(d, s["user_data"]["assignment_id"],
                                            s["user_context"]["student_db_id"], graded)
         IN  IF r.exc # "none" THEN Raised(r.exc, r.db)
             ELSE Returned([message |-> [text |-> "--- Grade ---", result |-> r.result]],
                           r.db)

\* summarize_pdf_node; summarized is whether Student.upload_pdf_for_summary
\* could process the PDF
summarize_pdf_node(d, s, summarized) ==
    IF \/ "user_data" \notin DOMAIN s
       \/ ~({"pdf_file_path", "query"} \subseteq DOMAIN s["user_data"])
    THEN Raised("KeyError", d)
    ELSE Returned([message |-> [text |-> "--- Summary & Answer ---",
                                result |-> IF summarized THEN "summary_response"
                                           ELSE "Could not process the PDF file."]], d)

\* ------------------------------------------------------- main.py graph
\* workflow.set_entry_point
EntryPoint == "login"

\* route_after_login
route_after_login(s) == s["current_role"]

\* The path map of login's conditional edges with the college principal sent
\* to the admin menu
LoginEdges_college_to_admin ==
    [admin |-> "admin_menu", college |-> "admin_menu", teacher |-> "teacher_menu",
     student |-> "student_menu", unauthenticated |-> "login"]

\* The path map of login's conditional edges with the teacher sent to the
\* student menu
LoginEdges_teacher_to_student ==
    [admin |-> "admin_menu", college |-> "college_menu", teacher |-> "student_menu",
     student |-> "student_menu", unauthenticated |-> "login"]

\* The path map of login's conditional edges
LoginEdges ==
    [admin |-> "admin_menu", college |-> "college_menu", teacher |-> "teacher_menu",
     student |-> "student_menu", unauthenticated |-> "login"]

\* route_action without the END_OF_TURN signal
route_action_without_end_of_turn(s) ==
    LET action == Lower(Get(s, "action", ""))
    IN  IF action = "logout" THEN "logout" ELSE action

\* route_action
route_action(s) ==
    LET action == Lower(Get(s, "action", ""))
    IN  IF action = "" THEN "END_OF_TURN"
        ELSE IF action = "logout" THEN "logout" ELSE action

\* The path maps of the four menus' conditional edges
MenuEdges ==
    [admin_menu |->
        [add_college |-> "add_college", remove_college |-> "remove_college",
         list_colleges |-> "list_colleges", logout |-> "logout", END_OF_TURN |-> END],
     college_menu |->
        [add_teacher |-> "add_teacher", remove_teacher |-> "remove_teacher",
         list_teachers |-> "list_teachers", logout |-> "logout", END_OF_TURN |-> END],
     teacher_menu |->
        [add_student |-> "add_student", generate_assignment |-> "generate_assignment",
         send_assignment |-> "send_assignment", logout |-> "logout", END_OF_TURN |-> END],
     student_menu |->
        [get_assignments |-> "get_assignments", submit_assignment |-> "submit_assignment",
         summarize_pdf |-> "summarize_pdf", logout |-> "logout", END_OF_TURN |-> END]]

\* workflow.add_edge with logout leading back to login, as final_app.py has it
Edges_logout_to_login ==
    [add_college |-> "admin_menu", remove_college |-> "admin_menu",
     list_colleges |-> "admin_menu",
     add_teacher |-> "college_menu", remove_teacher |-> "college_menu",
     list_teachers |-> "college_menu",
     add_student |-> "teacher_menu", generate_assignment |-> "teacher_menu",
     send_assignment |-> "teacher_menu",
     get_assignments |-> "student_menu", submit_assignment |-> "student_menu",
     summarize_pdf |-> "student_menu",
     logout |-> "login"]

\* workflow.add_edge: from each action node back to a menu, from logout to END
Edges ==
    [add_college |-> "admin_menu", remove_college |-> "admin_menu",
     list_colleges |-> "admin_menu",
     add_teacher |-> "college_menu", remove_teacher |-> "college_menu",
     list_teachers |-> "college_menu",
     add_student |-> "teacher_menu", generate_assignment |-> "teacher_menu",
     send_assignment |-> "teacher_menu",
     get_assignments |-> "student_menu", submit_assignment |-> "student_menu",
     summarize_pdf |-> "student_menu",
     logout |-> END]

\* A conditional edge with a path map: the destination, or the KeyError that
\* the lookup of a result missing from the map raises
Branch(path_map, result) ==
    IF result \in DOMAIN path_map THEN path_map[result] ELSE "KeyError"

Nodes ==
    {"login", "logout", "admin_menu", "college_menu", "teacher_menu", "student_menu"}
        \cup (DOMAIN Edges)

\* --------------------------------------------------- final_app.py nodes
\* make_response
make_response(s, message) == Merge(s, [response |-> message])

\* get_user_details
get_user_details(d, email) == FindOne(d.users, {u \in Docs(d.users) : u.email = email})

\* login_node of final_app.py; email and password are what input() and
\* getpass.getpass() read
final_login_node(d, s, email, password) ==
    LET user_doc == get_user_details(d, email)
    IN  IF user_doc # None /\ BcryptVerify(password, user_doc._password_hash)
        THEN Merge(s, [current_user_id |-> user_doc._id,
                       current_role |-> user_doc.role,
                       current_user_doc |-> user_doc,
                       response |-> [text |-> "Login successful! Welcome,",
                                     name |-> user_doc.name]])
        ELSE make_response(Merge(s, [current_role |-> "unauthenticated"]),
                           Msg("Invalid credentials. Please try again."))

\* logout_node of final_app.py
final_logout_node(s) ==
    [current_role |-> "unauthenticated",
     response |-> Msg("You have been successfully logged out.")]

\* admin_menu_node of final_app.py
final_admin_menu_node(s) ==
    make_response(s, [text |-> "ADMIN MENU | Actions:",
                      actions |-> <<"add_college", "list_colleges", "remove_college", "logout">>])

\* college_menu_node of final_app.py
final_college_menu_node(s) ==
    make_response(s, [text |-> "COLLEGE MENU | Actions:",
                      actions |-> <<"add_teacher", "list_teachers", "remove_teacher", "logout">>])

\* teacher_menu_node of final_app.py
final_teacher_menu_node(s) ==
    make_response(s, [text |-> "TEACHER MENU | Actions:",
                      actions |-> <<"add_student", "generate_assignment", "send_assignment", "logout">>])

\* student_menu_node of final_app.py
final_student_menu_node(s) ==
    make_response(s, [text |-> "STUDENT MENU | Actions:",
                      actions |-> <<"get_assignments", "submit_assignment", "chat_with_pdf", "logout">>])

\* add_college_node of final_app.py; typed is what the input() calls read,
\* age_is_int whether int() accepts the age typed
final_add_college_node(d, s, typed, age_is_int) ==
    IF ~age_is_int
    THEN Returned(make_response(s, Msg("Invalid input:")), d)
    ELSE LET r == Admin_add_college(d, typed)
         IN  IF r.doc # None
             THEN Returned(make_response(s,
                      [text |-> "College added. Principal's temporary password:",
                       name |-> r.doc.name, password |-> r.password]), r.db)
             ELSE Returned(make_response(s,
                      Msg("Failed to add college. Please check input data.")), r.db)

\* list_colleges_node of final_app.py
final_list_colleges_node(d, s) ==
    LET colleges == Admin_list_colleges(d, FALSE)
    IN  IF colleges = <<>>
        THEN Returned(make_response(s, Msg("No active colleges found.")), d)
        ELSE Returned(make_response(s,
                 [text |-> "Active Colleges:",
                  data |-> [i \in 1..Len(colleges) |->
                               [name |-> colleges[i].name, ID |-> colleges[i]._id]]]), d)

\* remove_college_node of final_app.py; college_id is what input() read
final_remove_college_node(d, s, college_id) ==
    IF Admin_remove_college(d, college_id)
    THEN Returned(make_response(s, [text |-> "College has been deactivated.",
                                    id |-> college_id]),
                  Admin_remove_college_db(d, college_id))
    ELSE Returned(make_response(s, [text |-> "College not found.", id |-> college_id]),
                  Admin_remove_college_db(d, college_id))

\* generate_assignment_node of final_app.py; numbers_are_int is whether int()
\* accepts the three counts typed
final_generate_assignment_node(d, s, numbers_are_int, generated) ==
    IF ~numbers_are_int
    THEN Returned(make_response(s, Msg("An error occurred:")), d)
    ELSE LET r == Teacher_generate_assignment(d, "topic",
                                              Get(s, "current_user_id", None), generated)
         IN  IF r.assignment_id # None
             THEN Returned(make_response(s, [text |-> "Assignment generated successfully! ID:",
                                             id |-> r.assignment_id]), r.db)
             ELSE Returned(make_response(s, Msg("Could not generate assignment.")), r.db)

\* chat_with_pdf_node of final_app.py: Student.upload_pdf_for_summary takes two
\* arguments and is given three; the TypeError is caught by the node
final_chat_with_pdf_node(d, s) ==
    Returned(make_response(s, Msg("An error occurred:")), d)

\* placeholder_node
placeholder_node(action_name, d, s) ==
    Returned(make_response(s, [text |-> "Action is not fully implemented in this CLI demo",
                               action |-> action_name]), d)

\* ------------------------------------------------- final_app.py graph
\* f"{role}_menu"
MenuOf(role) ==
    CASE role = "admin" -> "admin_menu"
      [] role = "college" -> "college_menu"
      [] role = "teacher" -> "teacher_menu"
      [] role = "student" -> "student_menu"
      [] OTHER -> "unauthenticated_menu"

\* route_after_login of final_app.py
final_route_after_login(s) ==
    IF Get(s, "current_role", "") # "unauthenticated"
    THEN MenuOf(s["current_role"]) ELSE "login"

\* valid_actions of route_action
valid_actions ==
    [admin |-> {"add_college", "list_colleges", "remove_college"},
     college |-> {"add_teacher", "list_teachers", "remove_teacher"},
     teacher |-> {"add_student", "generate_assignment", "send_assignment"},
     student |-> {"get_assignments", "submit_assignment", "chat_with_pdf"}]

\* route_action of final_app.py
final_route_action(s) ==
    LET action == Strip(Lower(Get(s, "user_input", "")))
        role == Get(s, "current_role", "")
    IN  IF action = "logout" THEN "logout"
        ELSE IF role \in DOMAIN valid_actions /\ action \in valid_actions[role]
        THEN action
        ELSE MenuOf(role)

\* The add_edge calls of build_graph
final_Edges ==
    [add_college |-> "admin_menu", list_colleges |-> "admin_menu",
     remove_college |-> "admin_menu",
     add_teacher |-> "college_menu", list_teachers |-> "college_menu",
     remove_teacher |-> "college_menu",
     add_student |-> "teacher_menu", generate_assignment |-> "teacher_menu",
     send_assignment |-> "teacher_menu",
     get_assignments |-> "student_menu", submit_assignment |-> "student_menu",
     chat_with_pdf |-> "student_menu",
     logout |-> "login"]

\* The actions build_graph gives a placeholder node
Placeholders ==
    {"add_teacher", "list_teachers", "remove_teacher", "add_student", "send_assignment",
     "get_assignments", "submit_assignment"}

final_Nodes ==
    {"login", "logout", "admin_menu", "college_menu", "teacher_menu", "student_menu"}
        \cup (DOMAIN final_Edges)

\* The node that follows node n once its update gave state s; a conditional
\* edge without a path map goes to the node its function names
final_NextNode(n, s) ==
    LET dest == CASE n = "login" -> final_route_after_login(s)
                  [] n \in {"admin_menu", "college_menu", "teacher_menu", "student_menu"} ->
                         final_route_action(s)
                  [] OTHER -> final_Edges[n]
    IN  IF dest \in final_Nodes THEN dest ELSE "KeyError"

\* ------------------------------------------- inputs of main.py's graph
\* The email and password keys of user_data: those of the seeded principals
CredentialsOf ==
    [admin |-> [email |-> ADMIN_EMAIL, password |-> ADMIN_PASSWORD],
     college |-> [email |-> COLLEGE_DATA.email, password |-> SeedCollege.password],
     teacher |-> [email |-> TEACHER_DATA.email, password |-> SeedTeacher.password],
     student |-> [email |-> STUDENT_DATA.email, password |-> SeedStudent.password]]

Credentials == { CredentialsOf[r] : r \in DOMAIN CredentialsOf }

BadCredentials ==
    { [email |-> ADMIN_EMAIL, password |-> [str |-> "wrong"]],
      [email |-> "nobody@example.com", password |-> ADMIN_PASSWORD],
      [email |-> ADMIN_EMAIL],
      EmptyDict }

\* The other keys of user_data, by the action they are submitted with
Payloads ==
    [add_college |->
        { [name |-> "First Gen University", principal_name |-> "Dr. Alan Turing",
           principal_age |-> 41, phone_no |-> 10],
          [principal_name |-> "Dr. Alan Turing", principal_age |-> 41, phone_no |-> 10],
          [name |-> "First Gen University", principal_name |-> "Dr. Alan Turing",
           principal_age |-> 41, phone_no |-> 3] },
     remove_college |-> { [college_id |-> SeedCollege.doc._id], EmptyDict },
     list_colleges |-> { EmptyDict, [include_inactive |-> TRUE] },
     add_teacher |->
        { [name |-> "Prof. Hinton", age |-> 76, address |-> "123 Neural Net Avenue",
           phone_no |-> 10, assigned_class |-> "Deep Learning 101"],
          [name |-> "Prof. Hinton", age |-> 76, address |-> "123 Neural Net Avenue",
           phone_no |-> 10] },
     remove_teacher |-> { [teacher_id |-> SeedTeacher.doc._id], EmptyDict },
     list_teachers |-> { EmptyDict },
     add_student |->
        { [name |-> "Alex Student", age |-> 20, address |-> "456 Backprop Boulevard",
           phone_no |-> 10],
          [name |-> "Alex Student", age |-> 200, address |-> "456 Backprop Boulevard",
           phone_no |-> 10] },
     generate_assignment |->
        { [pdf_file_path |-> "test_photosynthesis.pdf", topic |-> "Photosynthesis",
           num_mcq |-> 1, num_short |-> 1, num_long |-> 0] },
     send_assignment |->
        { [assignment_id |-> Uuid(Issued(SeedDb) + 1),
           class_ids |-> {"Deep Learning 101"}] },
     get_assignments |-> { EmptyDict, [status |-> "submitted"] },
     submit_assignment |->
        { [assignment_id |-> Uuid(Issued(SeedDb) + 1), answers |-> "answers"] },
     summarize_pdf |-> { [pdf_file_path |-> "notes.pdf", query |-> "query"] }]

\* Submitted action names that name no action node
OtherActions == {"LOGOUT", "Add_College", "END_OF_TURN", "unknown_action"}

\* The inputs given to app.stream
Inputs ==
    \* credentials alone (main.py's first step, testing.py's logins)
    { [user_data |-> c] : c \in Credentials \cup BadCredentials }
    \* an action and its payload alone (main.py's and testing.py's later steps)
    \cup { [action |-> a, user_data |-> p] : a \in {"add_college", "logout"},
                                            p \in {COLLEGE_DATA, EmptyDict} }
    \* credentials together with an action of the principal's role and its payload
    \cup UNION { { [action |-> a, user_data |-> Merge(p, CredentialsOf[r])]
                     : p \in Payloads[a] }
                 : <<a, r>> \in { ar \in (DOMAIN Payloads) \X (DOMAIN CredentialsOf) :
                                    ar[1] \in DOMAIN MenuEdges[LoginEdges[ar[2]]] } }
    \* credentials together with an action of another role
    \cup { [action |-> a, user_data |-> CredentialsOf[r]]
             : a \in {"add_college", "add_teacher", "add_student", "get_assignments"},
               r \in DOMAIN CredentialsOf }
    \* credentials together with logout or with an empty action
    \cup { [action |-> a, user_data |-> c] : a \in {"", "logout"}, c \in Credentials }
    \* an admin's credentials together with a name that is no action
    \cup { [action |-> a, user_data |-> CredentialsOf["admin"]] : a \in OtherActions }
    \* nothing at all
    \cup { EmptyDict }

\* --------------------------------------------------- traversal of main.py
Zero == [n \in Nodes \cup final_Nodes |-> 0]

\* The node that follows node n once its update gave state s
NextNode(n, s) ==
    CASE n = "login" -> Branch(LoginEdges, route_after_login(s))
      [] n \in DOMAIN MenuEdges -> Branch(MenuEdges[n], route_action(s))
      [] OTHER -> Edges[n]

WithinBounds(d) ==
    /\ Len(d.users) <= MaxUsers
    /\ Len(d.assignments) <= MaxAssignments
    /\ Len(d.submissions) <= MaxSubmissions

\* The keys of AppState that describe the session's principal
SessionKeys == {"current_role", "current_user_id", "user_context"}

\* d restricted to the keys of ks it has
Restrict(d, ks) == [k \in (DOMAIN d) \cap ks |-> d[k]]

\* workflow.compile(checkpointer=MemorySaver()): the state is kept per thread_id
checkpointer_MemorySaver == [MemorySaver |-> TRUE]

\* app = workflow.compile(): no checkpointer is given
checkpointer == None

\* The state a traversal starts from: the input written over what the
\* checkpointer holds for the thread_id, the input alone without a checkpointer
StartState(saved, inp) == IF checkpointer = None THEN inp ELSE Merge(saved, inp)

\* app.stream(inputs, config): the traversal starts at the entry point
Invoke(inp) ==
    /\ prog = "main"
    /\ status # "running"
    /\ state' = StartState(state, inp)
    /\ input' = inp
    /\ prev' = Restrict(state, SessionKeys)
    /\ node' = EntryPoint
    /\ status' = "running"
    /\ steps' = 0
    /\ visits' = Zero
    /\ UNCHANGED <<prog, db, lastLogin>>

\* app.get_state(config) of testing.py's run_step, once the stream is
\* exhausted: without a checkpointer it raises ValueError
get_state ==
    /\ prog = "main"
    /\ status = "ended"
    /\ status' = IF checkpointer = None THEN "ValueError" ELSE status
    /\ UNCHANGED <<prog, db, state, node, steps, visits, input, lastLogin, prev>>

\* One superstep of graph g: node n was evaluated with result r
Superstep(g, n, r) ==
    /\ prog = g
    /\ status = "running"
    /\ node = n
    /\ steps < recursion_limit
    /\ WithinBounds(r.db)
    /\ db' = r.db
    /\ steps' = steps + 1
    /\ visits' = [visits EXCEPT ![n] = @ + 1]
    /\ IF r.exc # "none"
       THEN /\ status' = r.exc
            /\ UNCHANGED <<state, node>>
       ELSE LET s == Merge(state, r.update)
                dest == IF g = "main" THEN NextNode(n, s) ELSE final_NextNode(n, s)
            IN  /\ state' = s
                /\ status' = CASE dest = END -> "ended"
                               [] dest = "KeyError" -> "KeyError"
                               [] OTHER -> "running"
                /\ node' = IF dest = "KeyError" THEN n ELSE dest
    /\ UNCHANGED <<prog, input, prev>>

\* The ceiling swallowed: the traversal is reported as ended
GraphRecursionError_reported_as_halt ==
    /\ status = "running"
    /\ steps >= recursion_limit
    /\ status' = "ended"
    /\ UNCHANGED <<prog, db, state, node, steps, visits, input, lastLogin, prev>>

\* The ceiling: a node is due after recursion_limit supersteps
GraphRecursionError ==
    /\ status = "running"
    /\ steps >= recursion_limit
    /\ status' = "GraphRecursionError"
    /\ UNCHANGED <<prog, db, state, node, steps, visits, input, lastLogin, prev>>

Login ==
    /\ Superstep("main", "login", Returned(login_node(db, state), db))
    /\ lastLogin' = IF login_node(db, state).current_role # "unauthenticated"
                    THEN Restrict(login_node(db, state), SessionKeys) ELSE lastLogin

Logout == Superstep("main", "logout", Returned(logout_node(state), db)) /\ UNCHANGED lastLogin

AdminMenu ==
    Superstep("main", "admin_menu", Returned(admin_menu_node(state), db)) /\ UNCHANGED lastLogin
CollegeMenu ==
    Superstep("main", "college_menu", Returned(college_menu_node(state), db)) /\ UNCHANGED lastLogin
TeacherMenu ==
    Superstep("main", "teacher_menu", Returned(teacher_menu_node(state), db)) /\ UNCHANGED lastLogin
StudentMenu ==
    Superstep("main", "student_menu", Returned(student_menu_node(state), db)) /\ UNCHANGED lastLogin

AddCollege == Superstep("main", "add_college", add_college_node(db, state)) /\ UNCHANGED lastLogin
RemoveCollege ==
    Superstep("main", "remove_college", remove_college_node(db, state)) /\ UNCHANGED lastLogin
ListColleges ==
    Superstep("main", "list_colleges", list_colleges_node(db, state)) /\ UNCHANGED lastLogin
AddTeacher == Superstep("main", "add_teacher", add_teacher_node(db, state)) /\ UNCHANGED lastLogin
RemoveTeacher ==
    Superstep("main", "remove_teacher", remove_teacher_node(db, state)) /\ UNCHANGED lastLogin
ListTeachers ==
    Superstep("main", "list_teachers", list_teachers_node(db, state)) /\ UNCHANGED lastLogin
AddStudent == Superstep("main", "add_student", add_student_node(db, state)) /\ UNCHANGED lastLogin
GenerateAssignment ==
    \E generated \in BOOLEAN :
        /\ Superstep("main", "generate_assignment", generate_assignment_node(db, state, generated))
        /\ UNCHANGED lastLogin
SendAssignment ==
    Superstep("main", "send_assignment", send_assignment_node(db, state)) /\ UNCHANGED lastLogin
GetAssignments ==
    Superstep("main", "get_assignments", get_assignments_node(db, state)) /\ UNCHANGED lastLogin
SubmitAssignment ==
    \E graded \in BOOLEAN :
        /\ Superstep("main", "submit_assignment", submit_assignment_node(db, state, graded))
        /\ UNCHANGED lastLogin
SummarizePdf ==
    \E summarized \in BOOLEAN :
        /\ Superstep("main", "summarize_pdf", summarize_pdf_node(db, state, summarized))
        /\ UNCHANGED lastLogin

\* ----------------------------------------------- traversal of final_app.py
\* What is typed at the prompts of final_app.py's login_node
TypedCredentials ==
    Credentials
        \cup { [email |-> ADMIN_EMAIL, password |-> [str |-> "wrong"]],
               [email |-> "nobody@example.com", password |-> ADMIN_PASSWORD],
               [email |-> "principal.turing@fgu.edu",
                password |-> TempPassword(Issued(SeedDb) + 1)] }

\* What is typed at the prompts of final_app.py's add_college_node
TypedColleges ==
    { [name |-> "First Gen University", principal_name |-> "Dr. Alan Turing",
       principal_age |-> 41, principal_address |-> "address", phone_no |-> 10,
       email |-> "principal.turing@fgu.edu"],
      [name |-> "First Gen University", principal_name |-> "Dr. Alan Turing",
       principal_age |-> 41, principal_address |-> "address", phone_no |-> 3,
       email |-> "principal.turing@fgu.edu"] }

\* What is typed at the prompt of final_app.py's remove_college_node
TypedCollegeIds == { SeedCollege.doc._id, Uuid(0) }

\* What is typed at the "Enter action: " prompt
TypedActions ==
    (DOMAIN final_Edges) \cup {"", " ", " logout ", "LOGOUT", "unknown_action"}

\* The inputs given to app.stream by final_app.py
final_Inputs ==
    { [current_role |-> "unauthenticated"] }
        \cup { [user_input |-> a] : a \in TypedActions }

\* app.stream(initial_state, stream_mode="values") of final_app.py
final_Invoke(inp) ==
    /\ prog = "final_app"
    /\ status # "running"
    /\ state' = inp
    /\ input' = inp
    /\ node' = "login"
    /\ status' = "running"
    /\ steps' = 0
    /\ visits' = Zero
    /\ UNCHANGED <<prog, db, lastLogin, prev>>

final_Login ==
    \E c \in TypedCredentials :
        LET s == final_login_node(db, state, c.email, c.password)
        IN  /\ Superstep("final_app", "login", Returned(s, db))
            /\ lastLogin' = IF s.current_role # "unauthenticated"
                            THEN [k \in {"current_role", "current_user_id",
                                         "current_user_doc"} |-> s[k]]
                            ELSE lastLogin

final_Logout ==
    Superstep("final_app", "logout", Returned(final_logout_node(state), db))
        /\ UNCHANGED lastLogin

final_AdminMenu ==
    Superstep("final_app", "admin_menu", Returned(final_admin_menu_node(state), db))
        /\ UNCHANGED lastLogin
final_CollegeMenu ==
    Superstep("final_app", "college_menu", Returned(final_college_menu_node(state), db))
        /\ UNCHANGED lastLogin
final_TeacherMenu ==
    Superstep("final_app", "teacher_menu", Returned(final_teacher_menu_node(state), db))
        /\ UNCHANGED lastLogin
final_StudentMenu ==
    Superstep("final_app", "student_menu", Returned(final_student_menu_node(state), db))
        /\ UNCHANGED lastLogin

final_AddCollege ==
    \E typed \in TypedColleges, age_is_int \in BOOLEAN :
        /\ Superstep("final_app", "add_college",
                     final_add_college_node(db, state, typed, age_is_int))
        /\ UNCHANGED lastLogin

final_ListColleges ==
    Superstep("final_app", "list_colleges", final_list_colleges_node(db, state))
        /\ UNCHANGED lastLogin

final_RemoveCollege ==
    \E college_id \in TypedCollegeIds :
        /\ Superstep("final_app", "remove_college",
                     final_remove_college_node(db, state, college_id))
        /\ UNCHANGED lastLogin

final_GenerateAssignment ==
    \E numbers_are_int \in BOOLEAN, generated \in BOOLEAN :
        /\ Superstep("final_app", "generate_assignment",
                     final_generate_assignment_node(db, state, numbers_are_int, generated))
        /\ UNCHANGED lastLogin

final_ChatWithPdf ==
    Superstep("final_app", "chat_with_pdf", final_chat_with_pdf_node(db, state))
        /\ UNCHANGED lastLogin

final_Placeholder ==
    \E action_name \in Placeholders :
        /\ Superstep("final_app", action_name, placeholder_node(action_name, db, state))
        /\ UNCHANGED lastLogin

Init ==
    /\ prog \in {"main", "final_app"}
    /\ db = SeedDb
    /\ state = EmptyDict
    /\ input = EmptyDict
    /\ node = EntryPoint
    /\ status = "idle"
    /\ steps = 0
    /\ visits = Zero
    /\ lastLogin = EmptyDict
    /\ prev = EmptyDict

Next ==
    \/ \E inp \in Inputs : Invoke(inp)
    \/ Login
    \/ Logout
    \/ AdminMenu
    \/ CollegeMenu
    \/ TeacherMenu
    \/ StudentMenu
    \/ AddCollege
    \/ RemoveCollege
    \/ ListColleges
    \/ AddTeacher
    \/ RemoveTeacher
    \/ ListTeachers
    \/ AddStudent
    \/ GenerateAssignment
    \/ SendAssignment
    \/ GetAssignments
    \/ SubmitAssignment
    \/ SummarizePdf
    \/ GraphRecursionError
    \/ get_state
    \/ \E inp \in final_Inputs : final_Invoke(inp)
    \/ final_Login
    \/ final_Logout
    \/ final_AdminMenu
    \/ final_CollegeMenu
    \/ final_TeacherMenu
    \/ final_StudentMenu
    \/ final_AddCollege
    \/ final_ListColleges
    \/ final_RemoveCollege
    \/ final_GenerateAssignment
    \/ final_ChatWithPdf
    \/ final_Placeholder

Spec == Init /\ [][Next]_vars

\* ------------------------------------------- a college principal's session
\* The database when testing.py's run_full_test has added its college
CollegeDb == SeedCollege.db

\* A second college and a teacher of it
OTHER_COLLEGE_DATA ==
    [name |-> "First Gen University", principal_name |-> "Dr. Alan Turing",
     principal_age |-> 41, phone_no |-> 10, email |-> "principal.turing@fgu.edu"]
OTHER_TEACHER_DATA ==
    [name |-> "Prof. Yann LeCun", age |-> 63, address |-> "1 Convolution Road",
     phone_no |-> 10, email |-> "prof.lecun@fgu.edu", assigned_class |-> "Vision 101"]
OtherCollege == Admin_add_college(CollegeDb, OTHER_COLLEGE_DATA)
OtherTeacher == College_add_teacher(OtherCollege.db, OTHER_TEACHER_DATA, OtherCollege.doc._id)
TwoCollegesDb == OtherTeacher.db

\* What the principal of testing.py's college submits
CollegeInputs ==
    { [user_data |-> CredentialsOf["college"]],
      [action |-> "logout", user_data |-> CredentialsOf["college"]] }
    \cup { [action |-> a, user_data |-> Merge(p, CredentialsOf["college"])]
             : a \in {"add_teacher"},
               p \in Payloads["add_teacher"]
                      \cup { [name |-> "Prof. Hinton", age |-> 76,
                              address |-> "123 Neural Net Avenue", phone_no |-> 10,
                              assigned_class |-> "Deep Learning 101",
                              college_id |-> OtherCollege.doc._id] } }
    \cup { [action |-> "remove_teacher", user_data |-> Merge(p, CredentialsOf["college"])]
             : p \in Payloads["remove_teacher"]
                      \cup { [teacher_id |-> OtherTeacher.doc._id] } }
    \cup { [action |-> "list_teachers", user_data |-> Merge(p, CredentialsOf["college"])]
             : p \in {EmptyDict, [include_inactive |-> TRUE]} }

InitCollege ==
    /\ prog = "main"
    /\ db \in {CollegeDb, TwoCollegesDb}
    /\ state = EmptyDict
    /\ input = EmptyDict
    /\ node = EntryPoint
    /\ status = "idle"
    /\ steps = 0
    /\ visits = Zero
    /\ lastLogin = EmptyDict
    /\ prev = EmptyDict

InvokeCollege == \E inp \in CollegeInputs : Invoke(inp)

NextCollege ==
    \/ InvokeCollege
    \/ Login
    \/ Logout
    \/ CollegeMenu
    \/ AddTeacher
    \/ RemoveTeacher
    \/ ListTeachers
    \/ GraphRecursionError
    \/ get_state

SpecCollege == InitCollege /\ [][NextCollege]_vars

\* ------------------------------------- inputs that name a principal
\* A current_role, current_user_id and user_context given in the input of
\* app.stream, as AppState lets a caller do
SuppliedPrincipal ==
    [current_role |-> "admin", current_user_id |-> Uuid(1),
     user_context |-> [college_id |-> Uuid(0), teacher_db_id |-> Uuid(0),
                       student_db_id |-> Uuid(0), assigned_class |-> "Any"]]

SuppliedInputs ==
    { Merge(inp, SuppliedPrincipal) :
        inp \in { [action |-> "add_college", user_data |-> COLLEGE_DATA],
                  [action |-> "list_colleges", user_data |-> EmptyDict],
                  [action |-> "list_colleges", user_data |-> CredentialsOf["student"]],
                  [action |-> "get_assignments", user_data |-> CredentialsOf["student"]],
                  [action |-> "list_teachers", user_data |-> CredentialsOf["college"]],
                  [action |-> "list_colleges",
                   user_data |-> [email |-> ADMIN_EMAIL, password |-> [str |-> "wrong"]]],
                  [user_data |-> CredentialsOf["teacher"]],
                  EmptyDict } }

final_SuppliedInputs ==
    { [current_role |-> "admin", current_user_id |-> Uuid(1), user_input |-> a]
        : a \in {"list_colleges", "add_teacher", ""} }

InvokeSupplied == \E inp \in SuppliedInputs : Invoke(inp)

final_InvokeSupplied == \E inp \in final_SuppliedInputs : final_Invoke(inp)

NextSupplied == Next \/ InvokeSupplied \/ final_InvokeSupplied

SpecSupplied == Init /\ [][NextSupplied]_vars

\* ======================================= student sessions of main.py
\* A second student of the teacher's class, and an assignment the teacher
\* generated and has not sent yet
OTHER_STUDENT_DATA ==
    [name |-> "Sam Student", age |-> 21, address |-> "789 Gradient Street",
     phone_no |-> 10, email |-> "sam.student@lgu.edu"]
OtherStudent ==
    Teacher_add_student(SeedDb, OTHER_STUDENT_DATA, SeedTeacher.doc._id,
                        SeedCollege.doc._id, SeedTeacher.doc.assigned_class)
Assigned ==
    Teacher_generate_assignment(OtherStudent.db, "Photosynthesis",
                                SeedTeacher.doc._id, TRUE)

\* What the teacher and the two students submit about that assignment
StudentInputs ==
    { [action |-> "send_assignment",
       user_data |-> Merge([assignment_id |-> Assigned.assignment_id,
                            class_ids |-> {SeedTeacher.doc.assigned_class}],
                           CredentialsOf["teacher"])] }
    \cup { [action |-> a, user_data |-> Merge(p, c)]
             : c \in { CredentialsOf["student"],
                       [email |-> OTHER_STUDENT_DATA.email,
                        password |-> OtherStudent.password] },
               <<a, p>> \in { <<"get_assignments", EmptyDict>>,
                              <<"get_assignments", [status |-> "submitted"]>>,
                              <<"submit_assignment",
                                [assignment_id |-> Assigned.assignment_id,
                                 answers |-> "answers"]>> } }

InitStudent ==
    /\ prog = "main"
    /\ db = Assigned.db
    /\ state = EmptyDict
    /\ input = EmptyDict
    /\ node = EntryPoint
    /\ status = "idle"
    /\ steps = 0
    /\ visits = Zero
    /\ lastLogin = EmptyDict
    /\ prev = EmptyDict

InvokeStudent == \E inp \in StudentInputs : Invoke(inp)

NextStudent ==
    \/ InvokeStudent
    \/ Login
    \/ TeacherMenu
    \/ StudentMenu
    \/ SendAssignment
    \/ GetAssignments
    \/ SubmitAssignment
    \/ GraphRecursionError

SpecStudent == InitStudent /\ [][NextStudent]_vars

\* ============================================== app_ui.py's graph
\* (prog = "app_ui"; the state holds the keys of app_ui.py's AppState, and
\* input holds both arguments of graph_runner)

\* login_node of app_ui.py. User.verify_password is called on the class
\* with the typed password as self, so reading self._password_hash raises
\* AttributeError whenever an active user has the email.
ui_login_node(d, s) ==
    IF "form_data" \notin DOMAIN s THEN Raised("KeyError", d)
    ELSE IF s["form_data"] = None THEN Raised("AttributeError", d)
    ELSE LET email == Get(s["form_data"], "email", None)
             user_doc == FindOne(d.users, {u \in Docs(d.users) :
                                              /\ u.email = email
                                              /\ Get(u, "active", None) = TRUE})
         IN  IF user_doc # None THEN Raised("AttributeError", d)
             ELSE Returned([user_instance |-> None,
                            error_message |-> "Invalid credentials."], d)

\* logout_node of app_ui.py
ui_logout_node(d, s) ==
    Returned([user_instance |-> None, current_node |-> "login_screen",
              response_message |-> "Logged out.", data_payload |-> None,
              form_data |-> None], d)

\* navigate_to_dashboard_node: state["user_instance"].role is read first
navigate_to_dashboard_node(d, s) ==
    IF "user_instance" \notin DOMAIN s THEN Raised("KeyError", d)
    ELSE IF s["user_instance"] = None THEN Raised("AttributeError", d)
    ELSE Returned([current_node |-> [dashboard |-> s["user_instance"].role],
                   response_message |-> None, data_payload |-> None], d)

\* process_form_node and fetch_data_node: the method named by the form is
\* looked up on user_instance and called with the form's other keys. None of
\* the calls the dashboards make succeeds (add_teacher is given `data`,
\* upload_study_material is no attribute of Teacher, user_instance may be
\* None), and the except clause turns the exception into error_message.
process_form_node(d, s) ==
    IF "form_data" \notin DOMAIN s THEN Raised("KeyError", d)
    ELSE IF s["form_data"] = None THEN Raised("AttributeError", d)
    ELSE IF "method" \notin DOMAIN s["form_data"] THEN Raised("KeyError", d)
    ELSE IF "user_instance" \notin DOMAIN s THEN Raised("KeyError", d)
    ELSE LET method_name == s["form_data"]["method"]
             e == IF s["user_instance"] # None
                     /\ method_name \in valid_actions[s["user_instance"].role]
                  THEN "TypeError" ELSE "AttributeError"
         IN  Returned([error_message |-> e, response_message |-> None,
                       form_data |-> Restrict(s["form_data"],
                                              DOMAIN s["form_data"] \ {"method"})], d)

\* The nodes create_graph adds
ui_Nodes == {"login", "logout", "navigate_to_dashboard", "process_form", "fetch_data"}

\* The edges of create_graph: the node that follows n once its update gave s
create_graph(n, s) ==
    CASE n = "navigate_to_dashboard" ->
             IF s["user_instance"] = None THEN "login"
             ELSE IF s["user_instance"].role \in {"admin", "college", "teacher", "student"}
             THEN END ELSE "KeyError"
      [] n = "login" ->
             IF s["user_instance"] # None THEN "navigate_to_dashboard" ELSE "login"
      [] n = "logout" -> "login"
      [] OTHER -> "navigate_to_dashboard"

\* What graph_runner is called with: the forms of the dashboards and of the
\* login screen, the Logout button's {}, and a state that carries
\* user_instance (None, or the instance of a stored user)
ui_Payloads ==
    { [form_data |-> c] : c \in TypedCredentials }
        \cup { [form_data |-> [method |-> "add_teacher",
                               data |-> [name |-> TEACHER_DATA.name,
                                         email |-> TEACHER_DATA.email]]],
               [form_data |-> [method |-> "upload_study_material",
                               subject |-> "Deep Learning", chapter |-> "1"]],
               EmptyDict,
               [user_instance |-> None, current_node |-> "login",
                data_payload |-> None, form_data |-> None] }
        \cup { [user_instance |-> u, current_node |-> "login",
                data_payload |-> None, form_data |-> None] : u \in Docs(SeedDb.users) }

\* graph_runner(payload, entry_node): app.invoke(payload, config). The graph
\* is compiled without a checkpointer and entry_node is not passed on: the
\* traversal starts at the entry point with the payload alone. An empty
\* payload is refused before any node runs.
graph_runner(payload, entry_node) ==
    /\ prog = "app_ui"
    /\ status # "running"
    /\ state' = payload
    /\ input' = [payload |-> payload, entry_node |-> entry_node]
    /\ node' = "navigate_to_dashboard"
    /\ status' = IF payload = EmptyDict THEN "EmptyInputError" ELSE "running"
    /\ steps' = 0
    /\ visits' = [n \in ui_Nodes |-> 0]
    /\ UNCHANGED <<prog, db, lastLogin, prev>>

\* One superstep of app_ui.py's graph
ui_Superstep ==
    \E n \in ui_Nodes :
        LET r == CASE n = "login" -> ui_login_node(db, state)
                   [] n = "logout" -> ui_logout_node(db, state)
                   [] n = "navigate_to_dashboard" -> navigate_to_dashboard_node(db, state)
                   [] OTHER -> process_form_node(db, state)
            s == Merge(state, r.update)
            dest == create_graph(n, s)
        IN  /\ prog = "app_ui"
            /\ status = "running"
            /\ node = n
            /\ steps < recursion_limit
            /\ steps' = steps + 1
            /\ visits' = [visits EXCEPT ![n] = @ + 1]
            /\ IF r.exc # "none"
               THEN status' = r.exc /\ UNCHANGED <<state, node>>
               ELSE /\ state' = s
                    /\ status' = CASE dest = END -> "ended"
                                   [] dest = "KeyError" -> "KeyError"
                                   [] OTHER -> "running"
                    /\ node' = IF dest = "KeyError" THEN n ELSE dest
            /\ UNCHANGED <<prog, db, input, lastLogin, prev>>

InitUi ==
    /\ prog = "app_ui"
    /\ db = SeedDb
    /\ state = [user_instance |-> None, current_node |-> "login",
                data_payload |-> None, form_data |-> None]
    /\ node = "navigate_to_dashboard"
    /\ status = "idle"
    /\ steps = 0
    /\ visits = [n \in ui_Nodes |-> 0]
    /\ input = EmptyDict
    /\ lastLogin = EmptyDict
    /\ prev = EmptyDict

NextUi ==
    \/ \E payload \in ui_Payloads, entry_node \in ui_Nodes : graph_runner(payload, entry_node)
    \/ ui_Superstep

SpecUi == InitUi /\ [][NextUi]_vars

\* ================================================================ claims
Menus == DOMAIN MenuEdges
ActionNodes == (DOMAIN Edges \cup DOMAIN final_Edges) \ {"logout"}
Role(s) == Get(s, "current_role", "unauthenticated")
HasCredentials(inp) ==
    "user_data" \in DOMAIN inp /\ {"email", "password"} \subseteq DOMAIN inp["user_data"]

\* The actions each role may submit, as the menus announce them
Registry ==
    [main |->
        [admin |-> {"add_college", "remove_college", "list_colleges"},
         college |-> {"add_teacher", "remove_teacher", "list_teachers"},
         teacher |-> {"add_student", "generate_assignment", "send_assignment"},
         student |-> {"get_assignments", "submit_assignment", "summarize_pdf"},
         unauthenticated |-> {}],
     final_app |->
        [admin |-> {"add_college", "remove_college", "list_colleges"},
         college |-> {"add_teacher", "remove_teacher", "list_teachers"},
         teacher |-> {"add_student", "generate_assignment", "send_assignment"},
         student |-> {"get_assignments", "submit_assignment", "chat_with_pdf"},
         unauthenticated |-> {}]]

\* C1: in main.py's graph a traversal evaluates the handler node of the
\* submitted, permitted action exactly once: no action node is evaluated
\* twice in one traversal, and a traversal that ended after dispatching a
\* permitted action evaluated its node once and left no action pending.
C1_ActionDispatchedOnce ==
    prog = "main" =>
        /\ \A a \in ActionNodes : visits[a] <= 1
        /\ \A a \in Registry["main"][Role(state)] :
              (status = "ended" /\ Lower(Get(input, "action", "")) = a)
                  => (visits[a] = 1 /\ Get(state, "action", "") = "")

\* C2: whenever current_role is not "unauthenticated", current_user_id is
\* present and not None, and the principal's fields of the state are those
\* the most recent successful login_node evaluation returned.
C2_PrincipalFromLastLogin ==
    Role(state) # "unauthenticated" =>
        /\ "current_user_id" \in DOMAIN state
        /\ state["current_user_id"] # None
        /\ {"current_role", "current_user_id"} \subseteq DOMAIN lastLogin
        /\ \A k \in DOMAIN lastLogin : k \in DOMAIN state /\ state[k] = lastLogin[k]

\* C2 witness: a traversal ended with a college principal logged in, after an
\* earlier traversal had logged another principal in.
C2_Witness ==
    /\ status = "ended"
    /\ Role(state) = "college"
    /\ state["user_context"] = [college_id |-> SeedCollege.doc._id]
    /\ Role(prev) \notin {"college", "unauthenticated"}

\* C3: in main.py's graph, a session left authenticated as admin that submits
\* add_college with a valid payload ends halted at the admin menu, still
\* admin, the message of the final state holding the temporary password.
C3_AddCollegeHaltsWithPassword ==
    ( /\ prog = "main"
      /\ Role(prev) = "admin"
      /\ input = [action |-> "add_college", user_data |-> COLLEGE_DATA]
      /\ status \notin {"idle", "running"} )
        => ( /\ status = "ended"
             /\ Role(state) = "admin"
             /\ "password" \in DOMAIN state["message"] )

\* C4: in main.py's graph a failed login leaves current_role
\* "unauthenticated" and ends the traversal: login_node was evaluated once
\* and the traversal is over without reaching the ceiling.
C4_FailedLoginHalts ==
    ( /\ prog = "main"
      /\ visits["login"] >= 1
      /\ visits["logout"] = 0
      /\ Role(state) = "unauthenticated" )
        => (status = "ended" /\ visits["login"] = 1)

\* C5: in main.py's graph, once the session is authenticated, a traversal
\* whose input holds an action and payload but no credentials does not
\* evaluate login_node, and its first node is the menu of the session's role.
C5_ResumesAtMenu ==
    ( /\ prog = "main"
      /\ status # "idle"
      /\ Role(prev) # "unauthenticated"
      /\ "action" \in DOMAIN input
      /\ ~HasCredentials(input) )
        => ( /\ visits["login"] = 0
             /\ steps >= 1 => visits[MenuOf(Role(prev))] >= 1 )

\* C6: the state a traversal ends with is kept under the thread_id:
\* get_state reads it back, and the next traversal starts from it, so that
\* current_role, current_user_id and user_context survive.
C6_StatePersisted ==
    prog = "main" =>
        /\ status # "ValueError"
        /\ (status = "running" /\ steps = 0)
              => \A k \in DOMAIN prev : k \in DOMAIN state /\ state[k] = prev[k]

\* C7: in main.py's graph, evaluating a menu node while no action is pending
\* ends the traversal there, and nothing is evaluated after a traversal ended.
C7_MenuWithoutActionHalts ==
    /\ [][ ( /\ prog = "main"
             /\ status = "running"
             /\ node \in Menus
             /\ visits'[node] = visits[node] + 1
             /\ Get(state, "action", "") = "" )
               => (status' = "ended" /\ node' = END) ]_vars
    /\ [][ (prog = "main" /\ status = "ended" /\ steps' # 0) => visits' = visits ]_vars

\* C7 witness: a traversal ended right after the admin menu, no action given.
C7_Witness ==
    /\ prog = "main"
    /\ status = "ended"
    /\ "action" \notin DOMAIN state
    /\ visits["admin_menu"] = 1
    /\ steps = 2

\* C8: in main.py's graph an action that is not in the role's routing table
\* is recovered at the menu: the traversal ends normally there, the action
\* cleared, instead of aborting.
C8_UnknownActionRecovered ==
    \A m \in Menus :
        ( /\ prog = "main"
          /\ visits[m] >= 1
          /\ route_action(input) \notin DOMAIN MenuEdges[m] )
            => ( /\ status = "ended"
                 /\ node = END
                 /\ Get(state, "action", "") = "" )

\* C9: in both graphs, the action node about to be evaluated is in the table
\* of the session's current role; an action of another role is never
\* dispatched.
C9_OnlyOwnRoleActions ==
    /\ (status = "running" /\ node \in ActionNodes)
          => node \in Registry[prog][Role(state)]
    /\ \A a \in ActionNodes : visits[a] > 0 => a \in Registry[prog][Role(state)]

\* C9 witness: an admin submitted add_teacher, and its node was not evaluated.
C9_Witness ==
    /\ prog = "main"
    /\ Role(state) = "admin"
    /\ Get(input, "action", "") = "add_teacher"
    /\ visits["admin_menu"] = 1
    /\ status # "running"
    /\ visits["add_teacher"] = 0

PrincipalKeys == SessionKeys \cup {"current_user_doc"}
LoginSucceeded(s) ==
    LET m == IF prog = "main" THEN Get(s, "message", EmptyDict) ELSE Get(s, "response", EmptyDict)
    IN  "text" \in DOMAIN m
        /\ m["text"] \in {"Login successful! Welcome.", "Login successful! Welcome,"}

\* C10: a step that evaluates a menu node or an action node leaves
\* current_role, current_user_id and user_context (current_user_doc in
\* final_app.py) as they were, whatever its outcome; and a login that does
\* not succeed leaves current_role "unauthenticated".
C10_MenusAndActionsKeepPrincipal ==
    /\ [][ (status = "running" /\ steps' = steps + 1 /\ node \notin {"login", "logout"})
              => Restrict(state', PrincipalKeys) = Restrict(state, PrincipalKeys) ]_vars
    /\ [][ (status = "running" /\ steps' = steps + 1 /\ node = "login"
                /\ ~LoginSucceeded(state'))
              => Role(state') = "unauthenticated" ]_vars
    /\ [][ (status = "running" /\ steps' = steps + 1
                /\ status' \notin {"running", "ended"})
              => Role(state') = Role(state) ]_vars

\* C10 witness: a college principal submitted add_college, which is not in the
\* college table; role, id and context are those of the login.
C10_Witness ==
    /\ prog = "main"
    /\ Get(input, "action", "") = "add_college"
    /\ visits["college_menu"] = 1
    /\ status = "KeyError"
    /\ Restrict(state, SessionKeys) = lastLogin
    /\ Role(state) = "college"

\* C11: in main.py's graph an exception raised by an action handler is
\* caught at the action node: no traversal is aborted by an exception while
\* an action node is being evaluated.
C11_HandlerFailureCaught ==
    (prog = "main" /\ node \in DOMAIN Payloads)
        => status \notin {"KeyError", "Exception"}

\* The state right after logout_node was evaluated: main.py's traversal ended
\* there; final_app.py's is about to evaluate login again
JustLoggedOut ==
    /\ visits["logout"] >= 1
    /\ prog = "main" => status = "ended"
    /\ prog = "final_app" =>
          (status = "running" /\ node = "login" /\ visits["login"] = visits["logout"])

\* The message shown to the user: `message` in main.py, `response` in final_app.py
LastMessage(s) ==
    IF prog = "main" THEN Get(s, "message", EmptyDict) ELSE Get(s, "response", EmptyDict)

\* The pending action: `action` in main.py, `user_input` in final_app.py
PendingAction(s) ==
    IF prog = "main" THEN Get(s, "action", "") ELSE Get(s, "user_input", "")

\* C12: in both graphs, right after logout the session has current_role
\* "unauthenticated", current_user_id None, an empty user_context, no pending
\* action and a logout confirmation as its message.
C12_LogoutClearsSession ==
    JustLoggedOut =>
        /\ Role(state) = "unauthenticated"
        /\ Get(state, "current_user_id", None) = None
        /\ Get(state, "user_context", EmptyDict) = EmptyDict
        /\ PendingAction(state) = ""
        /\ LastMessage(state) \in {Msg("You have been logged out."),
                                   Msg("You have been successfully logged out.")}

\* C13: in main.py's graph logout is terminal: once logout_node was evaluated
\* the traversal has ended normally (a get_state call may have followed it)
\* and nothing else is evaluated in it; and every
\* menu that is evaluated with the pending action "logout" is followed by
\* logout.
C13_LogoutTerminal ==
    /\ [](( prog = "main" /\ visits["logout"] >= 1 )
            => ( status \in {"ended", "ValueError"} /\ node = END /\ visits["logout"] = 1 ))
    /\ [][ ( /\ prog = "main"
             /\ status = "running"
             /\ node \in Menus
             /\ steps' = steps + 1
             /\ Get(state, "action", "") = "logout" )
               => ( status' = "running" /\ node' = "logout" ) ]_vars
    /\ [][ ( prog = "main" /\ visits["logout"] >= 1 /\ steps' # 0 )
               => visits' = visits ]_vars

\* C13 witness: a student submitted "logout" and the traversal ended after
\* login, the student menu and logout.
C13_Witness ==
    /\ prog = "main"
    /\ status = "ended"
    /\ visits["student_menu"] = 1
    /\ visits["logout"] = 1
    /\ steps = 3
    /\ Role(state) = "unauthenticated"

\* C14: within one traversal the step count never decreases and never
\* exceeds recursion_limit; a traversal that still has a node due at the
\* ceiling evaluates nothing more and aborts with GraphRecursionError, which
\* is never turned into a normal halt nor followed by anything but a new
\* invocation.
C14_StepCeiling ==
    /\ [](steps <= recursion_limit)
    /\ [][ status = "running" => steps' >= steps ]_vars
    /\ [][ (status = "running" /\ steps >= recursion_limit)
              => ( /\ status' = "GraphRecursionError"
                   /\ visits' = visits
                   /\ state' = state
                   /\ db' = db ) ]_vars
    /\ [][ status = "GraphRecursionError"
              => (status' = "running" /\ steps' = 0 /\ visits' = Zero) ]_vars

\* C14 witness: a login that fails was evaluated recursion_limit times and
\* the traversal aborted with GraphRecursionError.
C14_Witness ==
    /\ prog = "main"
    /\ status = "GraphRecursionError"
    /\ steps = recursion_limit
    /\ visits["login"] = recursion_limit

\* C15: no session is authenticated as the principal of a deactivated
\* college or as a deactivated teacher: whenever current_role is "college"
\* (or "teacher"), the college (teacher) record of current_user_id is active.
C15_SoftDeletedCannotLogin ==
    prog = "main" =>
        /\ Role(state) = "college" =>
              \A c \in Docs(db.colleges) :
                  c.principal_user_id = state["current_user_id"] => c.active
        /\ Role(state) = "teacher" =>
              \A t \in Docs(db.teachers) :
                  t.teacher_user_id = state["current_user_id"] => t.active

\* The emails and passwords tried at a login
EmailsTried == {u.email : u \in Docs(db.users)} \cup {"nobody@example.com"}
PasswordsTried == {c.password : c \in Credentials} \cup {[str |-> "wrong"]}
PasswordsStored == {u._password_hash.bcrypt : u \in Docs(db.users)}

\* The state with the given email and password as its credentials
WithCredentials(s, email, password) ==
    Merge(s, [user_data |-> Merge(Get(s, "user_data", EmptyDict),
                                  [email |-> email, password |-> password])])

\* C16: in both graphs, from any state in which login is due, a login with
\* an email that has no user record and a login with an existing email and a
\* wrong password give the same update (the same current_role and message)
\* and the same next node: all the failing logins, of which there are some
\* of either kind, have one outcome.
C16_NoEnumerationSignal ==
    LET Fails(e, p) ==
            LET user == FindOne(db.users, {u \in Docs(db.users) : u.email = e})
            IN  user = None \/ ~BcryptVerify(p, user._password_hash)
        failing == {ep \in EmailsTried \X PasswordsTried : Fails(ep[1], ep[2])}
        Outcome(e, p) ==
            IF prog = "main"
            THEN LET s == WithCredentials(state, e, p)
                     update == login_node(db, s)
                 IN  [update |-> update, next |-> NextNode("login", Merge(s, update))]
            ELSE LET t == final_login_node(db, state, e, p)
                 IN  [update |-> t, next |-> final_NextNode("login", t)]
    IN  (status = "running" /\ node = "login") =>
            /\ \E ep \in failing :
                  FindOne(db.users, {u \in Docs(db.users) : u.email = ep[1]}) = None
            /\ \E ep \in failing :
                  FindOne(db.users, {u \in Docs(db.users) : u.email = ep[1]}) # None
            /\ Cardinality({Outcome(ep[1], ep[2]) : ep \in failing}) = 1

\* C16 witness: a login with the admin's email and a wrong password failed.
C16_Witness ==
    /\ prog = "main"
    /\ visits["login"] >= 1
    /\ HasCredentials(input)
    /\ input["user_data"]["email"] = ADMIN_EMAIL
    /\ input["user_data"]["password"] = [str |-> "wrong"]
    /\ state["message"] = Msg("Invalid credentials.")
    /\ Role(state) = "unauthenticated"

\* The keys of user_context that scope each role
ScopeKeys ==
    [admin |-> {},
     college |-> {"college_id"},
     teacher |-> {"college_id", "teacher_db_id", "assigned_class"},
     student |-> {"student_db_id", "assigned_class"}]

\* C17: in main.py's graph, whenever the session is authenticated its
\* user_context holds exactly the scoping keys of its role (none for an
\* admin), with the values of the role's record: the update of every
\* successful login carries them.
C17_ContextScopesRole ==
    prog = "main" =>
        /\ Role(state) # "unauthenticated" =>
              /\ Role(state) \in DOMAIN ScopeKeys
              /\ "user_context" \in DOMAIN state
              /\ DOMAIN state["user_context"] = ScopeKeys[Role(state)]
        /\ \A e \in EmailsTried, p \in PasswordsStored :
              LET u == login_node(db, WithCredentials(state, e, p))
              IN  u["current_role"] # "unauthenticated" =>
                      DOMAIN u["user_context"] = ScopeKeys[u["current_role"]]

\* C17 witness: the seeded teacher logged in; the context names the college,
\* the teacher record and the class.
C17_Witness ==
    /\ prog = "main"
    /\ Role(state) = "teacher"
    /\ visits["teacher_menu"] >= 1
    /\ state["user_context"] = [college_id |-> SeedCollege.doc._id,
                                teacher_db_id |-> SeedTeacher.doc._id,
                                assigned_class |-> "Deep Learning 101"]

\* C18: in both graphs, also when the input of the invocation names a
\* current_role, current_user_id or user_context, the principal in effect
\* while a menu or an action node is due is the one a login of this traversal
\* derived from a stored user record: its role is the record's role, its id
\* the record's id and, in main.py, its context the one resolved for that
\* record.
C18_PrincipalDerivedNotSupplied ==
    (status = "running" /\ node \in Menus \cup ActionNodes) =>
        /\ visits["login"] >= 1
        /\ {"current_role", "current_user_id"} \subseteq DOMAIN lastLogin
        /\ \A k \in DOMAIN lastLogin : k \in DOMAIN state /\ state[k] = lastLogin[k]
        /\ \E u \in Docs(db.users) :
              /\ u._id = state["current_user_id"]
              /\ u.role = state["current_role"]
              /\ prog = "main" =>
                    /\ HasCredentials(state)
                    /\ u = FindOne(db.users, {v \in Docs(db.users) :
                                                 v.email = state["user_data"]["email"]})
                    /\ state["user_context"] = login_context(db, u.role, u._id)
              /\ prog = "final_app" => state["current_user_doc"] = u

\* C18 witness: the input named an admin as its principal and carried a
\* student's credentials; the student menu is due with the student's role, id
\* and context.
C18_Witness ==
    /\ prog = "main"
    /\ Get(input, "current_role", "") = "admin"
    /\ status = "running"
    /\ node = "get_assignments"
    /\ state["current_role"] = "student"
    /\ state["current_user_id"] = SeedStudent.doc.student_user_id
    /\ state["user_context"] # input["user_context"]

\* C19: in main.py's graph, of two invocations on one thread_id that run one
\* after the other, the second starts from the state the first left: when
\* the first left the session authenticated, the second starts with that
\* role and that user id.
C19_SecondStartsFromFirst ==
    ( /\ prog = "main"
      /\ status = "running"
      /\ steps = 0
      /\ Role(prev) # "unauthenticated" )
        => ( /\ Role(state) = Role(prev)
             /\ Get(state, "current_user_id", None) = prev["current_user_id"] )

\* C20: in main.py's graph, a teacher that add_teacher creates in a session
\* scoped to a college has that college's id, the one of user_context and of
\* the college the logged-in principal heads, whatever the payload holds; and
\* list_teachers in a session scoped to a college returns teachers of that
\* college only, all its active ones (the inactive ones too when asked), so
\* the teacher added before is among them.
C20_TeachersScopedToCollege ==
    /\ [][ ( /\ status = "running"
             /\ node = "add_teacher"
             /\ steps' = steps + 1
             /\ Len(db'.teachers) > Len(db.teachers) )
               => LET teacher == db'.teachers[Len(db'.teachers)]
                  IN  /\ Len(db'.teachers) = Len(db.teachers) + 1
                      /\ teacher.college_id = state["user_context"]["college_id"]
                      /\ \E c \in Docs(db.colleges) :
                            /\ c._id = teacher.college_id
                            /\ c.principal_user_id = state["current_user_id"]
                      /\ teacher.active ]_vars
    /\ [][ ( /\ status = "running"
             /\ node = "list_teachers"
             /\ steps' = steps + 1
             /\ status' = "running" )
               => LET O == state["user_context"]["college_id"]
                      data == state'["message"]["data"]
                      all == Get(state["user_data"], "include_inactive", FALSE)
                  IN  /\ \A i \in 1..Len(data) : data[i].college_id = O
                      /\ \A t \in Docs(db.teachers) :
                            (t.college_id = O /\ (t.active \/ all))
                                => \E i \in 1..Len(data) : data[i] = t ]_vars
    /\ [](\A i \in 1..Len(db.teachers) :
             \E c \in Docs(db.colleges) : c._id = db.teachers[i].college_id)

\* C20 witness: after an earlier traversal added teachers to the college,
\* list_teachers has just returned them, all of the principal's college.
C20_Witness ==
    /\ status = "running"
    /\ node = "college_menu"
    /\ visits["list_teachers"] = 1
    /\ visits["college_menu"] = 1
    /\ Len(db.teachers) >= 2
    /\ state["message"]["text"] = "json"
    /\ Len(state["message"]["data"]) >= 2
    /\ \A i \in 1..Len(state["message"]["data"]) :
          state["message"]["data"][i].college_id = state["user_context"]["college_id"]

\* The user record that the credentials of the input name
StoredUser(inp) ==
    FindOne(db.users, {u \in Docs(db.users) : u.email = inp["user_data"]["email"]})

\* C21: in main.py's graph, a traversal whose input holds credentials and no
\* action, once its login succeeded, evaluates no menu but the one of the
\* stored role r of the principal and no action node; after the menu it has
\* halted, with current_role = r and the message listing r's actions.
C21_LoginHaltsAtRoleMenu ==
    ( /\ prog = "main"
      /\ Get(input, "action", "") = ""
      /\ HasCredentials(input)
      /\ visits["login"] >= 1
      /\ Role(state) # "unauthenticated" )
        => LET r == StoredUser(input).role
           IN  /\ Role(state) = r
               /\ visits["login"] = 1
               /\ \A m \in Menus \ {MenuOf(r)} : visits[m] = 0
               /\ \A a \in ActionNodes \cup {"logout"} : visits[a] = 0
               /\ visits[MenuOf(r)] <= 1
               /\ status = "running" => (node = MenuOf(r) /\ visits[MenuOf(r)] = 0)
               /\ status \in {"running", "ended", "ValueError"}
               /\ visits[MenuOf(r)] = 1 =>
                     /\ status \in {"ended", "ValueError"}
                     /\ node = END
                     /\ "actions" \in DOMAIN state["message"]
                     /\ \A a \in Registry["main"][r] :
                           \E i \in DOMAIN state["message"]["actions"] :
                               state["message"]["actions"][i] = a

\* C21 witness: the admin logged in with no action and the traversal halted
\* at the admin menu, whose message lists add_college.
C21_Witness ==
    /\ prog = "main"
    /\ input = [user_data |-> CredentialsOf["admin"]]
    /\ status = "ended"
    /\ node = END
    /\ visits["admin_menu"] = 1
    /\ Role(state) = "admin"
    /\ state["message"]["actions"][1] = "add_college"

\* C22: in main.py's graph, a traversal whose input holds credentials and no
\* action starts with no action pending, whatever an earlier traversal of the
\* session submitted, and never evaluates an action node or logout; when it
\* has ended it has halted at the menu of the role of the principal the
\* credentials name, with that role.
C22_CredentialsAloneDispatchNothing ==
    ( /\ prog = "main"
      /\ "action" \notin DOMAIN input
      /\ HasCredentials(input)
      /\ status # "idle" )
        => /\ Get(state, "action", "") = ""
           /\ \A a \in ActionNodes \cup {"logout"} : visits[a] = 0
           /\ status \in {"ended", "ValueError"} =>
                 /\ StoredUser(input) # None
                 /\ Role(state) = StoredUser(input).role
                 /\ state["current_user_id"] = StoredUser(input)._id
                 /\ visits[MenuOf(Role(state))] = 1
                 /\ node = END
                 /\ steps = 2

\* C22 witness: an admin's traversal submitted remove_college, which
\* deactivated the college; then its principal logged in with credentials
\* alone and the traversal halted at the college menu.
C22_Witness ==
    /\ prog = "main"
    /\ Role(prev) = "admin"
    /\ ~db.colleges[1].active
    /\ input = [user_data |-> CredentialsOf["college"]]
    /\ status = "ended"
    /\ Role(state) = "college"
    /\ visits["college_menu"] = 1
    /\ visits["remove_college"] = 0

\* C23: in main.py's graph, the sessions of the principal of testing.py's
\* college never deactivate a teacher of another college: every teacher
\* whose college_id is not that college's stays active.
C23_RemoveTeacherScoped ==
    \A t \in Docs(db.teachers) : t.college_id # SeedCollege.doc._id => t.active

\* C24: in final_app.py's graph a traversal that reached a role menu halts
\* there: it is never aborted by the step ceiling, a menu is not evaluated
\* again for an empty or invalid user_input, and no action node is
\* evaluated twice for the same user_input.
C24_FinalMenuHalts ==
    ( /\ prog = "final_app"
      /\ \E m \in Menus : visits[m] >= 1 )
        => /\ status # "GraphRecursionError"
           /\ \A a \in ActionNodes : visits[a] <= 1
           /\ ( final_route_action(state) \in Menus
                  => \A m \in Menus : visits[m] <= 1 )

\* C25: in app_ui.py, graph_runner(payload, entry_node) evaluates the node
\* named by entry_node: once the call is over, that node was evaluated.
C25_EntryNodeEvaluated ==
    (prog = "app_ui" /\ status \notin {"idle", "running"})
        => visits[input.entry_node] >= 1

\* C26: in app_ui.py's graph, a traversal entered with user_instance None is
\* routed to login and raises nothing; entered with a stored user's instance
\* it is routed to that role's dashboard and ends.
C26_NoUserRoutesToLogin ==
    ( /\ prog = "app_ui"
      /\ status # "idle"
      /\ "user_instance" \in DOMAIN input.payload )
        => IF input.payload.user_instance = None
           THEN /\ status \in {"running", "ended", "GraphRecursionError"}
                /\ steps >= 1 => (node = "login" \/ visits["login"] >= 1)
           ELSE /\ status \in {"running", "ended"}
                /\ status = "ended" =>
                      /\ node = END
                      /\ state.current_node = [dashboard |-> input.payload.user_instance.role]

\* C27: in both graphs, a traversal that is over with current_role
\* "unauthenticated", after a failed login or a logout, holds no principal:
\* current_user_id is None (or was never set) and the context (user_context,
\* current_user_doc) is empty.
C27_UnauthenticatedHoldsNoPrincipal ==
    ( /\ status \notin {"idle", "running"}
      /\ "current_role" \in DOMAIN state
      /\ state["current_role"] = "unauthenticated" )
        => /\ Get(state, "current_user_id", None) = None
           /\ Get(state, "user_context", EmptyDict) = EmptyDict
           /\ Get(state, "current_user_doc", None) = None

\* C28: whatever add_college, add_teacher and add_student calls were made
\* on the database create_admin.py seeded, no two user records have the
\* same email.
C28_EmailsUnique ==
    \A i, j \in 1..Len(db.users) :
        db.users[i].email = db.users[j].email => i = j

\* C29: in every reachable state, between the two inserts and after a failed
\* second insert too, every user record with role college, teacher or
\* student has its role record: a college whose principal_user_id, a teacher
\* whose teacher_user_id, a student whose student_user_id is the user's _id.
C29_UserHasRoleRecord ==
    \A u \in Docs(db.users) :
        /\ u.role = "college" =>
              \E c \in Docs(db.colleges) : c.principal_user_id = u._id
        /\ u.role = "teacher" =>
              \E t \in Docs(db.teachers) : t.teacher_user_id = u._id
        /\ u.role = "student" =>
              \E t \in Docs(db.students) : t.student_user_id = u._id

\* The ids of the assignments Student.get_assignments returns to student
\* record st for a status
SeenBy(d, st, wanted) ==
    LET r == Student_get_assignments(d, st._id, st.assigned_class, wanted)
    IN  {r[i]._id : i \in 1..Len(r)}

\* student record st has a submission for assignment a
SubmittedBy(d, st, a) ==
    \E sub \in Docs(d.submissions) :
        sub.student_id = st._id /\ sub.assignment_id = a._id

\* C30: for every student s and every assignment a sent to s's class,
\* "pending" returns a and "submitted" does not as long as s has not
\* submitted a, and the reverse once s has; "submitted" never returns an
\* assignment s has not submitted. What a get_assignments node shows the
\* session's student is exactly that, a submit_assignment node that stored a
\* submission moves a from "pending" to "submitted" for the session's student
\* and changes nothing of what any other student is returned.
C30_PendingAndSubmitted ==
    /\ [](\A st \in Docs(db.students), a \in Docs(db.assignments) :
            /\ st.assigned_class \in a.sent_to_classes =>
                  /\ a._id \in SeenBy(db, st, "pending") <=> ~SubmittedBy(db, st, a)
                  /\ a._id \in SeenBy(db, st, "submitted") <=> SubmittedBy(db, st, a)
            /\ a._id \in SeenBy(db, st, "submitted") => SubmittedBy(db, st, a))
    /\ [][ ( /\ status = "running"
             /\ node = "get_assignments"
             /\ visits'["get_assignments"] = visits["get_assignments"] + 1
             /\ status' \in {"running", "ended"} )
              => \E st \in Docs(db.students) :
                    /\ st.student_user_id = state["current_user_id"]
                    /\ LET shown == state'["message"].data
                       IN  {shown[i]._id : i \in 1..Len(shown)}
                              = SeenBy(db, st, Get(state["user_data"], "status", "pending")) ]_vars
    /\ [][ ( /\ status = "running"
             /\ node = "submit_assignment"
             /\ Len(db'.submissions) > Len(db.submissions) )
              => \A st \in Docs(db.students) :
                    IF st.student_user_id = state["current_user_id"]
                    THEN /\ state["user_data"]["assignment_id"] \in SeenBy(db', st, "submitted")
                         /\ state["user_data"]["assignment_id"] \notin SeenBy(db', st, "pending")
                    ELSE \A x \in {"pending", "submitted"} :
                            SeenBy(db', st, x) = SeenBy(db, st, x) ]_vars

\* C30 witness: the assignment was sent to the class, both students have
\* submitted it, and the session of testing.py's student was just shown it
\* as submitted.
C30_Witness ==
    /\ \A st \in Docs(db.students) :
          \E a \in Docs(db.assignments) :
              st.assigned_class \in a.sent_to_classes /\ SubmittedBy(db, st, a)
    /\ Get(state, "current_user_id", None) = SeedStudent.doc.student_user_id
    /\ Get(Get(state, "user_data", EmptyDict), "status", "pending") = "submitted"
    /\ "message" \in DOMAIN state
    /\ "data" \in DOMAIN state["message"]
    /\ Len(state["message"].data) = 1

====
